---- MODULE Spec2Model ----
(***************************************************************************)
(* SQLDecomposer (src/decompose.py): one SQL statement with CTEs is turned *)
(* into an ordered plan of CREATE TEMP TABLE statements plus a final       *)
(* statement, and the plan is executed statement by statement in one      *)
(* session (src/execute_sql_snow.py, execute_batch_sql_to_dataframe).     *)
(*                                                                         *)
(* SQL text is a sequence of word tokens.  The parse tree of sqlglot is    *)
(* kept as far as the decomposer looks at it: the kind of the root node   *)
(* (Select, a set operation whose first operand is a Select, or an INSERT  *)
(* of literal values, a statement without any Select), the                *)
(* top-level CTE list with the table names found in each body, the table  *)
(* names of the main Select body and of the remaining operands, and       *)
(* whether a Subquery node declares CTEs of its own.                      *)
(***************************************************************************)
EXTENDS Naturals, Integers, Sequences, FiniteSets, TLC

\* ---- bounds of the explored inputs ----
MaxCtes == 2       \* top-level CTEs of one query
MaxRefs == 3       \* table references of one query, all bodies together

\* CTE aliases and table names that occur in the explored queries.  A table
\* reference may spell a name in another case than its definition ("a"/"A");
\* "__FINAL__" is the name of the sentinel node.
Aliases == {"a", "b", "__FINAL__"}
RefNames == {"a", "A", "b", "__FINAL__"}
\* a fixed left-to-right order in which a body lists its tables in the text
NameOrder == <<"a", "A", "\"a\"", "b", "__FINAL__">>

\* the names of the queries that spell one CTE in several ways: aliases that
\* differ only in case, and a reference written in double quotes
CaseAliases == {"a", "A", "b"}
CaseRefNames == {"a", "A", "\"a\"", "b"}

\* ---- str.lower / str.upper on the tokens of the model ----
ToLower ==
  [s \in {"A", "B", "__FINAL__", "WITH", "RECURSIVE", "SELECT", "FROM", "AS",
          "UNION", "WHERE", "JOIN", "CREATE", "OR", "REPLACE", "TEMP", "TABLE"} |->
     CASE s = "A" -> "a"
       [] s = "B" -> "b"
       [] s = "__FINAL__" -> "__final__"
       [] s = "WITH" -> "with"
       [] s = "RECURSIVE" -> "recursive"
       [] s = "SELECT" -> "select"
       [] s = "FROM" -> "from"
       [] s = "AS" -> "as"
       [] s = "UNION" -> "union"
       [] s = "WHERE" -> "where"
       [] s = "JOIN" -> "join"
       [] s = "CREATE" -> "create"
       [] s = "OR" -> "or"
       [] s = "REPLACE" -> "replace"
       [] s = "TEMP" -> "temp"
       [] s = "TABLE" -> "table"]

ToUpper ==
  [s \in {"a", "b", "__final__", "with", "recursive", "s", "x"} |->
     CASE s = "a" -> "A"
       [] s = "b" -> "B"
       [] s = "__final__" -> "__FINAL__"
       [] s = "with" -> "WITH"
       [] s = "recursive" -> "RECURSIVE"
       [] s = "s" -> "S"
       [] s = "x" -> "X"]

\* a double-quoted identifier and the name inside its quotes
Unquoted == [s \in {"\"a\""} |-> "a"]

IsQuoted(s) == s \in DOMAIN Unquoted

\* table.name of a table reference: the identifier without its quotes
Name(s) == IF IsQuoted(s) THEN Unquoted[s] ELSE s

\* the other tokens have no cased letters
lower(s) == IF s \in DOMAIN ToLower THEN ToLower[s] ELSE s

upper(s) == IF s \in DOMAIN ToUpper THEN ToUpper[s] ELSE s

\* ---- small sequence helpers ----
RECURSIVE SeqOfSet(_, _)
\* the elements of set S in the order in which sequence ord lists them
SeqOfSet(S, ord) ==
  IF ord = <<>> THEN <<>>
  ELSE IF Head(ord) \in S THEN <<Head(ord)>> \o SeqOfSet(S, Tail(ord))
       ELSE SeqOfSet(S, Tail(ord))

Range(s) == {s[i] : i \in DOMAIN s}

Contains(s, x) == \E i \in DOMAIN s : s[i] = x

RECURSIVE Perms(_)
\* all orders in which the elements of a set can be iterated
Perms(S) ==
  IF S = {} THEN {<<>>}
  ELSE UNION {{<<x>> \o p : p \in Perms(S \ {x})} : x \in S}

\* ---- rendering of a query as text (token sequence) ----
RECURSIVE CommaList(_)
CommaList(names) ==
  IF Len(names) = 0 THEN <<>>
  ELSE IF Len(names) = 1 THEN names
       ELSE <<Head(names), ",">> \o CommaList(Tail(names))

\* a SELECT that reads the given tables
BodySql(tables) ==
  IF tables = {} THEN <<"SELECT", "1">>
  ELSE <<"SELECT", "*", "FROM">> \o CommaList(SeqOfSet(tables, NameOrder))

RECURSIVE CteListSql(_)
CteListSql(cs) ==
  IF cs = <<>> THEN <<>>
  ELSE <<Head(cs).alias, "AS", "(">> \o BodySql(Head(cs).tables) \o <<")">>
       \o (IF Len(cs) > 1 THEN <<",">> ELSE <<>>) \o CteListSql(Tail(cs))

\* the subquery "(WITH s AS (SELECT 1) SELECT * FROM s)" in the FROM clause
SubquerySql(sub) ==
  IF sub = "none" THEN <<>>
  ELSE <<"JOIN", "(", "WITH">>
       \o (IF sub = "recursive" THEN <<"RECURSIVE">> ELSE <<>>)
       \o <<"s", "AS", "(", "SELECT", "1", ")", "SELECT", "*", "FROM", "s", ")">>

\* a string literal that happens to contain the word with
LiteralSql(lit) == IF lit THEN <<"WHERE", "x", "=", "'", "with", "'">> ELSE <<>>

\* INSERT INTO t VALUES (1): parsed to exp.Insert, no exp.Select in the tree
InsertSql == <<"INSERT", "INTO", "t", "VALUES", "(", "1", ")">>

\* the statement without its WITH clause
OuterSql(q) ==
  IF q.kind = "Insert" THEN InsertSql
  ELSE BodySql(q.tables) \o SubquerySql(q.sub) \o LiteralSql(q.lit)
       \o (IF q.kind = "Union" THEN <<"UNION">> \o BodySql(q.rest) ELSE <<>>)

WithSql(q) ==
  IF q.ctes = <<>> THEN <<>>
  ELSE <<"WITH">> \o (IF q.rec THEN <<"RECURSIVE">> ELSE <<>>) \o CteListSql(q.ctes)

\* the input text of query q
RawSql(q) == WithSql(q) \o OuterSql(q)

\* ---- the explored inputs ----
RECURSIVE TableSets(_, _)
\* sequences of k table sets with at most budget names in total
TableSets(k, budget) ==
  IF k = 0 THEN {<<>>}
  ELSE UNION {{<<S>> \o rest : rest \in TableSets(k - 1, budget - Cardinality(S))}
              : S \in {T \in SUBSET RefNames : Cardinality(T) <= budget}}

RECURSIVE CaseTableSets(_, _)
\* the same over the names CaseRefNames
CaseTableSets(k, budget) ==
  IF k = 0 THEN {<<>>}
  ELSE UNION {{<<S>> \o rest : rest \in CaseTableSets(k - 1, budget - Cardinality(S))}
              : S \in {T \in SUBSET CaseRefNames : Cardinality(T) <= budget}}

CaseAliasLists(n) == {p \in UNION {Perms(S) : S \in SUBSET CaseAliases} : Len(p) = n}

AllAliasLists == UNION {Perms(S) : S \in SUBSET Aliases}

AliasLists(n) == {p \in AllAliasLists : Len(p) = n}

\* a query without lexical extras: CTE i is al[i] with the tables ts[i], then
\* come the tables of the main Select and of the other operand of a UNION
PlainQuery(kind, al, ts) ==
  [kind |-> kind,
   ctes |-> [i \in DOMAIN al |-> [alias |-> al[i], tables |-> ts[i]]],
   tables |-> ts[Len(al) + 1],
   rest |-> IF kind = "Union" THEN ts[Len(al) + 2] ELSE {},
   sub |-> "none", rec |-> FALSE, lit |-> FALSE]

\* the statement INSERT INTO t VALUES (1): no CTEs and no Select
InsertStatement == PlainQuery("Insert", <<>>, <<{}>>)

\* the small queries are also written with WITH RECURSIVE, with a subquery
\* that declares CTEs, and with a literal containing the word with
IsSmall(q) ==
  /\ q.kind = "Select"
  /\ Len(q.ctes) <= 1
  /\ q.tables \subseteq {"a"}
  /\ \A i \in DOMAIN q.ctes :
       q.ctes[i].alias \in {"a", "b"} /\ q.ctes[i].tables \subseteq {"b"}

LexVariants(q) ==
  IF IsSmall(q)
  THEN {[q EXCEPT !.sub = sub, !.rec = rec, !.lit = lit]
          : sub \in {"none", "with", "recursive"},
            rec \in IF q.ctes = <<>> THEN {FALSE} ELSE BOOLEAN,
            lit \in BOOLEAN}
  ELSE {q}

\* ---- the queries given to the worker pool ----
ChainNames == <<"a", "b", "__FINAL__">>

\* n CTEs, each reading the one before it; the outer query reads the last
Chain(n) ==
  [kind |-> "Select",
   ctes |-> [i \in 1..n |-> [alias |-> ChainNames[i],
                             tables |-> IF i = 1 THEN {} ELSE {ChainNames[i - 1]}]],
   tables |-> IF n = 0 THEN {} ELSE {ChainNames[n]},
   rest |-> {}, sub |-> "none", rec |-> FALSE, lit |-> FALSE]

\* the chain closed to a circle: the first CTE reads the last
Cycle(n) == [Chain(n) EXCEPT !.ctes[1].tables = {ChainNames[n]}]

\* the first CTE reads itself
SelfRef(n) == [Chain(n) EXCEPT !.ctes[1].tables = {ChainNames[1]}]

\* the chain written with WITH RECURSIVE
Keyword(n) == [Chain(n) EXCEPT !.rec = TRUE]

\* the last CTE is read by the second operand of a UNION only
UnionChain(n) == [Chain(n) EXCEPT !.kind = "Union", !.tables = {},
                                  !.rest = {ChainNames[n]}]

PoolQueries ==
  {Chain(n) : n \in 0..MaxCtes} \cup {Cycle(n) : n \in 2..MaxCtes}
  \cup {SelfRef(n) : n \in 1..MaxCtes} \cup {Keyword(n) : n \in 1..MaxCtes}
  \cup {UnionChain(n) : n \in 1..MaxCtes}

\* ---- insertion-ordered dict: a sequence of [key, val] entries ----
DictKeys(d) == [i \in DOMAIN d |-> d[i].key]

HasKey(d, k) == \E i \in DOMAIN d : d[i].key = k

DictGet(d, k) == d[CHOOSE i \in DOMAIN d : d[i].key = k].val

\* d[k] = v: an existing key keeps its position, a new key goes last
DictSet(d, k, v) ==
  IF HasKey(d, k)
  THEN [i \in DOMAIN d |-> IF d[i].key = k THEN [key |-> k, val |-> v] ELSE d[i]]
  ELSE Append(d, [key |-> k, val |-> v])

\* ---- graphlib.TopologicalSorter(graph).static_order() ----
AppendNew(s, x) == IF Contains(s, x) THEN s ELSE Append(s, x)

RECURSIVE AppendAllNew(_, _)
AppendAllNew(s, xs) ==
  IF xs = <<>> THEN s ELSE AppendAllNew(AppendNew(s, Head(xs)), Tail(xs))

RECURSIVE AddNodes(_, _, _)
\* the order in which add(node, *predecessors) first sees each node;
\* a graph is a dict node -> set of predecessors, ord the set iteration order
AddNodes(graph, ord, acc) ==
  IF graph = <<>> THEN acc
  ELSE AddNodes(Tail(graph), ord,
                AppendAllNew(AppendNew(acc, Head(graph).key),
                             SeqOfSet(Head(graph).val, ord)))

\* the nodes that list n as a predecessor, in the order of the add calls
Successors(graph, n) ==
  LET IsSucc(e) == n \in e.val
  IN  DictKeys(SelectSeq(graph, IsSucc))

RECURSIVE DoneSuccessors(_, _, _)
\* done(node): every successor loses one predecessor and becomes ready at zero
DoneSuccessors(succs, npred, ready) ==
  IF succs = <<>> THEN [npred |-> npred, ready |-> ready]
  ELSE LET s == Head(succs)
           np == [npred EXCEPT ![s] = @ - 1]
       IN  DoneSuccessors(Tail(succs), np,
                          IF np[s] = 0 THEN Append(ready, s) ELSE ready)

RECURSIVE DoneGroup(_, _, _, _)
DoneGroup(graph, group, npred, ready) ==
  IF group = <<>> THEN [npred |-> npred, ready |-> ready]
  ELSE LET r == DoneSuccessors(Successors(graph, Head(group)), npred, ready)
       IN  DoneGroup(graph, Tail(group), r.npred, r.ready)

RECURSIVE Rounds(_, _, _, _)
\* get_ready / done until nothing is ready
Rounds(graph, ready, npred, out) ==
  IF ready = <<>> THEN out
  ELSE LET r == DoneGroup(graph, ready, npred, <<>>)
       IN  Rounds(graph, r.ready, r.npred, out \o ready)

\* the static order; cycle is set when prepare() raises CycleError
StaticOrder(graph, ord) ==
  LET nodes == AddNodes(graph, ord, <<>>)
      npred == [n \in Range(nodes) |->
                  IF HasKey(graph, n) THEN Cardinality(DictGet(graph, n)) ELSE 0]
      IsReady(n) == npred[n] = 0
      out == Rounds(graph, SelectSeq(nodes, IsReady), npred, <<>>)
  IN  IF Len(out) < Len(nodes)
      THEN [cycle |-> TRUE, order |-> <<>>]
      ELSE [cycle |-> FALSE, order |-> out]

\* ---- SQLDecomposer ----
SENTINEL == "__FINAL__"

DecomposedQuery(name, text, deps) ==
  [name |-> name, sql |-> text, dependencies |-> deps]

\* re.search(r'\bWITH\s+RECURSIVE\b', sql, re.IGNORECASE)
HasWithRecursive(text) ==
  \E i \in 1..(Len(text) - 1) :
     lower(text[i]) = "with" /\ lower(text[i + 1]) = "recursive"

\* len(re.findall(r'\bWITH\b', sql, re.IGNORECASE))
WithCount(text) == Cardinality({i \in DOMAIN text : lower(text[i]) = "with"})

\* some exp.Subquery node whose inner query has ctes
SubqueryHasCtes(tree) == tree.sub # "none"

\* (mutant) the WITH count is looked at before WITH RECURSIVE
CheckSkipConditionsCountFirst(text, tree) ==
  IF WithCount(text) > 1
  THEN [skip |-> TRUE, reason |-> "Nested WITH clauses detected"]
  ELSE IF HasWithRecursive(text)
  THEN [skip |-> TRUE, reason |-> "WITH RECURSIVE detected"]
  ELSE IF SubqueryHasCtes(tree)
  THEN [skip |-> TRUE, reason |-> "CTEs inside subquery"]
  ELSE [skip |-> FALSE, reason |-> ""]

CheckSkipConditions(text, tree) ==
  IF HasWithRecursive(text)
  THEN [skip |-> TRUE, reason |-> "WITH RECURSIVE detected"]
  ELSE IF WithCount(text) > 1
  THEN [skip |-> TRUE, reason |-> "Nested WITH clauses detected"]
  ELSE IF SubqueryHasCtes(tree)
  THEN [skip |-> TRUE, reason |-> "CTEs inside subquery"]
  ELSE [skip |-> FALSE, reason |-> ""]

CteSet(tree) == {tree.ctes[i].alias : i \in DOMAIN tree.ctes}

\* (mutant) the self-reference is compared with the case kept
DetectRecursiveCtesCaseSensitive(tree) ==
  {tree.ctes[i].alias : i \in
     {j \in DOMAIN tree.ctes :
        \E t \in tree.ctes[j].tables : Name(t) = tree.ctes[j].alias}}

DetectRecursiveCtes(tree) ==
  {tree.ctes[i].alias : i \in
     {j \in DOMAIN tree.ctes :
        \E t \in tree.ctes[j].tables : lower(Name(t)) = lower(tree.ctes[j].alias)}}

RECURSIVE ExtractCtes(_, _)
\* self._ctes[cte.alias] = cte.this.sql(...)
ExtractCtes(cs, acc) ==
  IF cs = <<>> THEN acc
  ELSE ExtractCtes(Tail(cs), DictSet(acc, Head(cs).alias, BodySql(Head(cs).tables)))

\* {name.lower(): name for name in cte_set}: the last name iterated wins
LowerToOriginal(cte_set, ord) ==
  LET names == SeqOfSet(cte_set, ord)
  IN  [l \in {lower(n) : n \in cte_set} |->
         names[CHOOSE i \in DOMAIN names :
                 /\ lower(names[i]) = l
                 /\ \A j \in DOMAIN names : lower(names[j]) = l => j <= i]]

\* the deps list of one CTE before list(set(deps))
CteDeps(cte, l2o) ==
  {l2o[lower(Name(t))] : t \in {u \in cte.tables :
                                  /\ lower(Name(u)) \in DOMAIN l2o
                                  /\ lower(Name(u)) # lower(cte.alias)}}

RECURSIVE CteDependencies(_, _, _, _)
CteDependencies(cs, l2o, ord, acc) ==
  IF cs = <<>> THEN acc
  ELSE CteDependencies(Tail(cs), l2o, ord,
         DictSet(acc, Head(cs).alias, SeqOfSet(CteDeps(Head(cs), l2o), ord)))

\* main_select.find_all(exp.Table) for main_select = parsed.find(exp.Select):
\* a Select root is found itself and its walk enters its WITH clause; under a
\* set operation the first Select found is the first operand, and the WITH
\* clause hangs off the set operation
MainSelectTables(tree) ==
  IF tree.kind = "Select"
  THEN tree.tables \cup UNION {tree.ctes[i].tables : i \in DOMAIN tree.ctes}
  ELSE tree.tables

\* self._parsed.find(exp.Select) finds a node
HasMainSelect(tree) == tree.kind # "Insert"

FinalDeps(tree, l2o) ==
  {l2o[lower(Name(t))] :
     t \in {u \in MainSelectTables(tree) : lower(Name(u)) \in DOMAIN l2o}}

\* re.sub of the quoted pattern, ignoring case, and the three replace calls
\* for the quoted exact, upper and lower spelling, which find nothing more
NormalizeQuoted(text, cte_name) ==
  [i \in DOMAIN text |->
     IF IsQuoted(text[i]) /\ lower(Name(text[i])) = lower(cte_name)
     THEN upper(cte_name) ELSE text[i]]

\* re.sub of the whole-word pattern with no quote next to it, ignoring case
NormalizeUnquoted(text, cte_name) ==
  [i \in DOMAIN text |->
     IF ~IsQuoted(text[i]) /\ lower(text[i]) = lower(cte_name)
     THEN upper(cte_name) ELSE text[i]]

\* (mutant) only the unquoted rule
NormalizeOneUnquotedOnly(text, cte_name) ==
  NormalizeUnquoted(text, cte_name)

\* the body of the loop of _normalize_cte_references for one CTE name
NormalizeOne(text, cte_name) ==
  NormalizeUnquoted(NormalizeQuoted(text, cte_name), cte_name)

RECURSIVE NormalizeAll(_, _)
NormalizeAll(text, names) ==
  IF names = <<>> THEN text
  ELSE NormalizeAll(NormalizeOne(text, Head(names)), Tail(names))

NormalizeCteReferences(text, cte_set, ord) ==
  NormalizeAll(text, SeqOfSet(cte_set, ord))

RECURSIVE AddMissingNodes(_, _)
\* for name in cte_set: if name not in graph: graph[name] = set()
AddMissingNodes(graph, names) ==
  IF names = <<>> THEN graph
  ELSE AddMissingNodes(
         IF HasKey(graph, Head(names)) THEN graph ELSE DictSet(graph, Head(names), {}),
         Tail(names))

DictGetOr(d, k, default) == IF HasKey(d, k) THEN DictGet(d, k) ELSE default

\* the step appended for one name of exec_order
EmitStep(name, tree, ctes, dependencies, final_sql, ord) ==
  IF name = SENTINEL
  THEN <<DecomposedQuery("FINAL_RESULT", final_sql,
                         DictGetOr(dependencies, SENTINEL, <<>>))>>
  ELSE IF HasKey(ctes, name)
  THEN <<DecomposedQuery(name,
            <<"CREATE", "OR", "REPLACE", "TEMP", "TABLE", upper(name), "AS">>
              \o NormalizeCteReferences(DictGet(ctes, name), CteSet(tree), ord),
            DictGetOr(dependencies, name, <<>>))>>
  ELSE <<>>

RECURSIVE EmitSteps(_, _, _, _, _, _)
EmitSteps(order, tree, ctes, dependencies, final_sql, ord) ==
  IF order = <<>> THEN <<>>
  ELSE EmitStep(Head(order), tree, ctes, dependencies, final_sql, ord)
       \o EmitSteps(Tail(order), tree, ctes, dependencies, final_sql, ord)

\* graph = {k: set(v) for k, v in self._dependencies.items()}
DependencyGraph(dependencies, cte_set, ord) ==
  AddMissingNodes([i \in DOMAIN dependencies |->
                     [key |-> dependencies[i].key, val |-> Range(dependencies[i].val)]],
                  SeqOfSet(cte_set, ord))

\* the single step that hands back the original statement
OriginalQuery(text) == <<DecomposedQuery("FINAL_RESULT", text, <<>>)>>

\* self._parsed.copy(): a tree of its own with the same content
CopyTree(tree) == tree

\* with_clause.pop() on the tree t: t without its WITH clause
PopWith(t) == [t EXCEPT !.ctes = <<>>, !.rec = FALSE]

\* (mutant) the WITH clause is popped from self._parsed itself
BuildDecomposedInPlace(tree, ctes, dependencies, ord) ==
  LET so == StaticOrder(DependencyGraph(dependencies, CteSet(tree), ord), ord)
      popped == PopWith(tree)
      final_sql == NormalizeCteReferences(RawSql(popped), CteSet(tree), ord)
  IN  IF so.cycle
      THEN [error |-> "CycleError", queries |-> <<>>, parsed |-> tree]
      ELSE [error |-> "",
            queries |-> EmitSteps(so.order, tree, ctes, dependencies, final_sql, ord),
            parsed |-> popped]

\* _build_queries below the has_recursive guard: [error, queries, parsed],
\* parsed being self._parsed as the method leaves it
BuildDecomposed(tree, ctes, dependencies, ord) ==
  LET so == StaticOrder(DependencyGraph(dependencies, CteSet(tree), ord), ord)
      parsed_copy == PopWith(CopyTree(tree))
      final_sql == NormalizeCteReferences(RawSql(parsed_copy), CteSet(tree), ord)
  IN  IF so.cycle
      THEN [error |-> "CycleError", queries |-> <<>>, parsed |-> tree]
      ELSE [error |-> "",
            queries |-> EmitSteps(so.order, tree, ctes, dependencies, final_sql, ord),
            parsed |-> tree]

\* (mutant) the has_recursive guard is missing
BuildQueriesNoGuard(text, tree, ctes, dependencies, has_recursive, ord) ==
  BuildDecomposed(tree, ctes, dependencies, ord)

\* _build_queries: [error, queries, parsed]
BuildQueries(text, tree, ctes, dependencies, has_recursive, ord) ==
  IF has_recursive
  THEN [error |-> "", queries |-> OriginalQuery(text), parsed |-> tree]
  ELSE BuildDecomposed(tree, ctes, dependencies, ord)

\* _parse after the skip check found nothing
ParseCtes(text, tree, ord) ==
  LET cs == ExtractCtes(tree.ctes, <<>>)
      rc == DetectRecursiveCtes(tree)
      l2o == LowerToOriginal(CteSet(tree), ord)
      d1 == CteDependencies(tree.ctes, l2o, ord, <<>>)
      d2 == IF HasMainSelect(tree)
            THEN DictSet(d1, SENTINEL, SeqOfSet(FinalDeps(tree, l2o), ord))
            ELSE d1
      b == BuildQueries(text, tree, cs, d2, rc # {}, ord)
  IN  [error |-> b.error, parsed |-> b.parsed, ctes |-> cs, dependencies |-> d2,
       queries |-> b.queries,
       recursive_ctes |-> rc, has_recursive |-> rc # {},
       skip_decomposition |-> FALSE, skip_reason |-> ""]

\* (mutant) the return after the skip branch is missing
ParseNoReturn(text, tree, ord) ==
  LET sk == CheckSkipConditions(text, tree)
      r == ParseCtes(text, tree, ord)
  IN  IF sk.skip
      THEN [r EXCEPT !.queries = OriginalQuery(text) \o @,
                     !.skip_decomposition = TRUE, !.skip_reason = sk.reason]
      ELSE r

\* __init__ and _parse: the fields of the constructed object, or the error
Parse(text, tree, ord) ==
  LET sk == CheckSkipConditions(text, tree)
  IN  IF sk.skip
      THEN [error |-> "", parsed |-> tree, ctes |-> <<>>, dependencies |-> <<>>,
            queries |-> OriginalQuery(text),
            recursive_ctes |-> {}, has_recursive |-> FALSE,
            skip_decomposition |-> TRUE, skip_reason |-> sk.reason]
      ELSE ParseCtes(text, tree, ord)

\* ---- statements run in one session ----
RECURSIVE InFromList(_, _)
\* position i of stmt is a table name of a FROM list
InFromList(stmt, i) ==
  /\ i > 1
  /\ \/ stmt[i - 1] = "FROM"
     \/ stmt[i - 1] = "," /\ i > 2 /\ InFromList(stmt, i - 2)

\* a statement carrying its own WITH clause resolves its CTE names itself
TablesRead(stmt) ==
  IF Contains(stmt, "WITH") THEN {}
  ELSE {stmt[i] : i \in {j \in DOMAIN stmt : InFromList(stmt, j)}}

IsCreate(stmt) == Len(stmt) >= 7 /\ stmt[1] = "CREATE"

TableCreated(stmt) == stmt[6]

\* the temp tables the plan of this query stands for
TempTables(tree) == {upper(n) : n \in CteSet(tree)}

\* ---- state ----
VARIABLES
  sql,                 \* self.sql
  parsed,              \* self._parsed
  ctes,                \* self._ctes
  dependencies,        \* self._dependencies
  queries,             \* self._queries
  recursive_ctes,      \* self._recursive_ctes
  has_recursive,       \* self._has_recursive
  skip_decomposition,  \* self._skip_decomposition
  skip_reason,         \* self._skip_reason
  pc,                  \* "new", "built" or "failed" (the constructor raised)
  error,               \* the exception the constructor raised
  conn,                \* "none", "open" or "closed"
  session,             \* temp tables that exist in the session
  executed,            \* statements of the plan executed so far
  missing,             \* CTE temp tables a statement read before their creation
  result,              \* what execute_decomposed_sql returned, "pending" before
  fault,               \* the exception a statement or the connect call raised
  first,               \* the plan of an earlier decomposition, if any: <<plan>>
  args,                \* worker pool: the query each worker was given
  at,                  \* worker pool: each worker's position and local cte_set
  objs,                \* worker pool: the fields of the SQLDecomposer objects
  hashseed,            \* worker pool: the set iteration order of the process
  stmts,               \* batch: what the cursor holds after each statement
  cursor,              \* batch: statements executed by the for loop
  final_df,            \* batch: <<>> for None, else <<the frame last assigned>>
  returned,            \* batch: the pair (frame, error) the function returned
  norm_sql,            \* normalizer: the text given, a sequence of characters
  norm_order,          \* normalizer: cte_set in the order the loop iterates it
  norm_out,            \* normalizer: the results of the calls made so far
  session_connections, \* agent tool: _session_connections, session id -> connection
  connections,         \* agent tool: the connections ever opened: [sid, state]
  calls,               \* agent tool: calls of the tool functions made so far
  last_call,           \* agent tool: the last call and what it returned
  threads,             \* agent tool: threads inside get_or_create_connection
  conversation,        \* replay: the conversation of the selected record
  item,                \* replay: index of the next conversation item
  active_steps,        \* replay: step_name -> sql_block
  refinement_history,  \* replay: list of (sql_block, reason)
  final_answer,        \* replay: <<>> for None, else <<the answer block>>
  output               \* replay: the file written: [history, sequence]

vars == <<sql, parsed, ctes, dependencies, queries, recursive_ctes, has_recursive,
          skip_decomposition, skip_reason, pc, error, conn, session, executed, missing,
          result, fault, first, args, at, objs, hashseed,
          stmts, cursor, final_df, returned, norm_sql, norm_order, norm_out,
          session_connections, connections, calls, last_call, threads,
          conversation, item, active_steps, refinement_history, final_answer,
          output>>

pool == <<args, at, objs, hashseed>>

batch == <<stmts, cursor, final_df, returned>>

\* the variables of the other programs of the repository
normalizer == <<norm_sql, norm_order, norm_out>>

registry == <<session_connections, connections, calls, last_call, threads>>

replay == <<conversation, item, active_steps, refinement_history, final_answer,
            output>>

rest == <<batch, normalizer, registry, replay>>

PoolIdle ==
  /\ args = <<>>
  /\ at = <<>>
  /\ objs = <<>>
  /\ hashseed = <<>>

\* the function has not returned
NotReturned == [df |-> 0, error |-> "pending"]

BatchIdle ==
  /\ stmts = <<>>
  /\ cursor = 0
  /\ final_df = <<>>
  /\ returned = NotReturned

NormalizerIdle ==
  /\ norm_sql = <<>>
  /\ norm_order = <<>>
  /\ norm_out = <<>>

\* no call of a tool function was made
NoCall == [op |-> "none", sid |-> "", conn |-> 0, content |-> ""]

RegistryIdle ==
  /\ session_connections = <<>>
  /\ connections = <<>>
  /\ calls = 0
  /\ last_call = NoCall
  /\ threads = <<>>

\* no file was written
NoOutput == [written |-> FALSE, history |-> <<>>, sequence |-> <<>>]

ReplayIdle ==
  /\ conversation = <<>>
  /\ item = 0
  /\ active_steps = <<>>
  /\ refinement_history = <<>>
  /\ final_answer = <<>>
  /\ output = NoOutput

RestIdle == BatchIdle /\ NormalizerIdle /\ RegistryIdle /\ ReplayIdle

decomposer == <<sql, parsed, ctes, dependencies, queries, recursive_ctes,
                has_recursive, skip_decomposition, skip_reason, pc, error>>

Init ==
  /\ \/ \E n \in 0..MaxCtes, kind \in {"Select", "Union"} :
          \E ts \in TableSets(IF kind = "Union" THEN n + 2 ELSE n + 1, MaxRefs) :
            \E al \in AliasLists(n) :
              parsed \in LexVariants(PlainQuery(kind, al, ts))
     \/ parsed = InsertStatement
  /\ sql = RawSql(parsed)
  /\ ctes = <<>>
  /\ dependencies = <<>>
  /\ queries = <<>>
  /\ recursive_ctes = {}
  /\ has_recursive = FALSE
  /\ skip_decomposition = FALSE
  /\ skip_reason = ""
  /\ pc = "new"
  /\ error = ""
  /\ conn = "none"
  /\ session = {}
  /\ executed = 0
  /\ missing = {}
  /\ result = "pending"
  /\ fault = "none"
  /\ first = <<>>
  /\ args = <<>>
  /\ at = <<>>
  /\ objs = <<>>
  /\ hashseed = <<>>
  /\ RestIdle

\* execute_decomposed_sql up to the choice of the execution function:
\* SQLDecomposer(sql), where a raised exception leaves no object behind and
\* is turned into the returned error, and the return for an empty plan
Construct ==
  /\ pc = "new"
  /\ \E r \in {Parse(sql, parsed, ord) : ord \in Perms(CteSet(parsed))} :
       IF r.error = ""
       THEN /\ pc' = "built"
            /\ error' = ""
            /\ parsed' = r.parsed
            /\ result' = IF r.queries = <<>> THEN "No queries to execute"
                          ELSE "pending"
            /\ ctes' = r.ctes
            /\ dependencies' = r.dependencies
            /\ queries' = r.queries
            /\ recursive_ctes' = r.recursive_ctes
            /\ has_recursive' = r.has_recursive
            /\ skip_decomposition' = r.skip_decomposition
            /\ skip_reason' = r.skip_reason
       ELSE /\ pc' = "failed"
            /\ error' = r.error
            /\ result' = "Decomposition error"
            /\ UNCHANGED <<parsed, ctes, dependencies, queries, recursive_ctes,
                           has_recursive, skip_decomposition, skip_reason>>
  /\ UNCHANGED <<sql, conn, session, executed, missing, fault, first, pool, rest>>

\* the value the execution function returns: the error the except clauses
\* make of the exception, or the result of the last statement
ReturnValue(absent, raised) ==
  IF absent # {} \/ raised = "ProgrammingError" THEN "SQL Error"
  ELSE IF raised = "Timeout" THEN "Query timed out"
  ELSE IF raised = "Exception" THEN "Error"
  ELSE "ok"

\* snowflake.connector.connect, of execute_sql_to_dataframe for a plan of
\* one statement and of execute_batch_sql_to_dataframe for a longer one
Connect ==
  /\ pc = "built"
  /\ conn = "none"
  /\ queries # <<>>
  /\ result = "pending"
  /\ conn' = "open"
  /\ UNCHANGED <<decomposer, session, executed, missing, result, fault, first, pool, rest>>

\* cursor.execute(sql) for the next statement of the plan; reading a temp
\* table that does not exist raises ProgrammingError and ends the loop
ExecuteStatement ==
  /\ conn = "open"
  /\ executed < Len(queries)
  /\ missing = {}
  /\ fault = "none"
  /\ LET stmt == queries[executed + 1].sql
         absent == (TablesRead(stmt) \cap TempTables(parsed)) \ session
     IN  IF absent # {}
         THEN /\ missing' = absent
              /\ UNCHANGED <<session, executed>>
         ELSE /\ executed' = executed + 1
              /\ session' = IF IsCreate(stmt) THEN session \cup {TableCreated(stmt)}
                            ELSE session
              /\ UNCHANGED missing
  /\ UNCHANGED <<decomposer, conn, result, fault, first, pool, rest>>

\* (mutant) the function returns and leaves the connection open
ReturnWithoutClose ==
  /\ conn = "open"
  /\ executed = Len(queries) \/ missing # {} \/ fault # "none"
  /\ result = "pending"
  /\ result' = ReturnValue(missing, fault)
  /\ UNCHANGED <<decomposer, conn, session, executed, missing, fault, first, pool, rest>>

\* the return of the execution function: the result of the last statement,
\* or the error of the except clause; finally: conn.close()
Close ==
  /\ conn = "open"
  /\ executed = Len(queries) \/ missing # {} \/ fault # "none"
  /\ conn' = "closed"
  /\ result' = ReturnValue(missing, fault)
  /\ UNCHANGED <<decomposer, session, executed, missing, fault, first, pool, rest>>

\* cursor.execute(sql) raises for the next statement: a ProgrammingError of
\* the database, one that reports the statement timeout, or another exception
FailStatement ==
  /\ conn = "open"
  /\ executed < Len(queries)
  /\ missing = {}
  /\ fault = "none"
  /\ fault' \in {"ProgrammingError", "Timeout", "Exception"}
  /\ UNCHANGED <<decomposer, conn, session, executed, missing, result, first, pool, rest>>

\* snowflake.connector.connect raises: conn stays None, the except clause
\* returns the error and finally has nothing to close
FailConnect ==
  /\ pc = "built"
  /\ conn = "none"
  /\ queries # <<>>
  /\ result = "pending"
  /\ fault' = "Exception"
  /\ result' = ReturnValue({}, "Exception")
  /\ UNCHANGED <<decomposer, conn, session, executed, missing, first, pool, rest>>

Next == Construct \/ Connect \/ ExecuteStatement \/ Close

Spec == Init /\ [][Next]_vars

\* SELECT queries whose CTEs may differ only in case and whose references
\* may be written in another case or in double quotes
InitCase ==
  /\ \E n \in 1..MaxCtes :
       \E ts \in CaseTableSets(n + 1, MaxRefs) :
         \E al \in CaseAliasLists(n) :
           parsed = PlainQuery("Select", al, ts)
  /\ sql = RawSql(parsed)
  /\ ctes = <<>>
  /\ dependencies = <<>>
  /\ queries = <<>>
  /\ recursive_ctes = {}
  /\ has_recursive = FALSE
  /\ skip_decomposition = FALSE
  /\ skip_reason = ""
  /\ pc = "new"
  /\ error = ""
  /\ conn = "none"
  /\ session = {}
  /\ executed = 0
  /\ missing = {}
  /\ result = "pending"
  /\ fault = "none"
  /\ first = <<>>
  /\ args = <<>>
  /\ at = <<>>
  /\ objs = <<>>
  /\ hashseed = <<>>
  /\ RestIdle

SpecCase == InitCase /\ [][Next]_vars

\* the same text is decomposed once more, by another run of the program: the
\* plan of the first decomposition is kept aside and a new object is built
DecomposeAgain ==
  /\ pc = "built"
  /\ first = <<>>
  /\ first' = <<queries>>
  /\ pc' = "new"
  /\ ctes' = <<>>
  /\ dependencies' = <<>>
  /\ queries' = <<>>
  /\ recursive_ctes' = {}
  /\ has_recursive' = FALSE
  /\ skip_decomposition' = FALSE
  /\ skip_reason' = ""
  /\ result' = "pending"
  /\ UNCHANGED <<sql, parsed, error, conn, session, executed, missing, fault, pool, rest>>

NextRepeat == Construct \/ DecomposeAgain

SpecRepeat == Init /\ [][NextRepeat]_vars

\* ---- run_parallel: the worker threads of one process ----
Workers == {1, 2}

\* a SQLDecomposer object before __init__ has assigned its fields
NewObject ==
  [sql |-> <<>>, parsed |-> <<>>, ctes |-> <<>>, dependencies |-> <<>>,
   queries |-> <<>>, recursive_ctes |-> {}, has_recursive |-> FALSE,
   skip_decomposition |-> FALSE, skip_reason |-> ""]

\* (mutant) every worker works on one and the same object
SelfShared(w) == 1

\* the object the constructor call of worker w has as self: SQLDecomposer(sql)
\* creates one for each call
Self(w) == w

\* the variables of the single session, which the worker pool does not use
SessionIdle ==
  /\ sql = <<>>
  /\ parsed = <<>>
  /\ ctes = <<>>
  /\ dependencies = <<>>
  /\ queries = <<>>
  /\ recursive_ctes = {}
  /\ has_recursive = FALSE
  /\ skip_decomposition = FALSE
  /\ skip_reason = ""
  /\ pc = "idle"
  /\ error = ""
  /\ conn = "none"
  /\ session = {}
  /\ executed = 0
  /\ missing = {}
  /\ result = "pending"
  /\ fault = "none"
  /\ first = <<>>

InitParallel ==
  /\ SessionIdle
  /\ args \in [Workers -> PoolQueries]
  /\ at = [w \in Workers |-> [pc |-> "start", cte_set |-> {}]]
  /\ objs = [o \in Workers |-> NewObject]
  /\ hashseed \in Perms(Range(ChainNames))
  /\ RestIdle

single == <<sql, parsed, ctes, dependencies, queries, recursive_ctes, has_recursive,
            skip_decomposition, skip_reason, pc, error, conn, session, executed,
            missing, result, fault, first>>

\* __init__ up to the call of _parse: the fields are assigned
WStart(w) ==
  /\ at[w].pc = "start"
  /\ objs' = [objs EXCEPT ![Self(w)] =
                [NewObject EXCEPT !.sql = RawSql(args[w]), !.parsed = args[w]]]
  /\ at' = [at EXCEPT ![w].pc = "check"]
  /\ UNCHANGED <<single, args, hashseed, rest>>

\* _parse: the skip check and the branch that returns the original statement
WCheck(w) ==
  /\ at[w].pc = "check"
  /\ LET o == objs[Self(w)]
         sk == CheckSkipConditions(o.sql, o.parsed)
     IN  /\ objs' = [objs EXCEPT ![Self(w)] =
                       [o EXCEPT !.skip_decomposition = sk.skip,
                                 !.skip_reason = sk.reason,
                                 !.queries = IF sk.skip THEN @ \o OriginalQuery(o.sql)
                                             ELSE @]]
         /\ at' = [at EXCEPT ![w].pc = IF sk.skip THEN "done" ELSE "extract"]
  /\ UNCHANGED <<single, args, hashseed, rest>>

\* _parse: the CTEs are extracted into self._ctes and the local cte_set, and
\* the recursive ones are detected
WExtract(w) ==
  /\ at[w].pc = "extract"
  /\ LET o == objs[Self(w)]
         rc == DetectRecursiveCtes(o.parsed)
     IN  /\ objs' = [objs EXCEPT ![Self(w)] =
                       [o EXCEPT !.ctes = ExtractCtes(o.parsed.ctes, @),
                                 !.recursive_ctes = rc,
                                 !.has_recursive = rc # {}]]
         /\ at' = [at EXCEPT ![w] = [pc |-> "deps", cte_set |-> CteSet(o.parsed)]]
  /\ UNCHANGED <<single, args, hashseed, rest>>

\* _parse: the dependencies of the CTEs and of the final query
WDeps(w) ==
  /\ at[w].pc = "deps"
  /\ LET o == objs[Self(w)]
         l2o == LowerToOriginal(at[w].cte_set, hashseed)
         d1 == CteDependencies(o.parsed.ctes, l2o, hashseed, o.dependencies)
         d2 == IF HasMainSelect(o.parsed)
               THEN DictSet(d1, SENTINEL, SeqOfSet(FinalDeps(o.parsed, l2o), hashseed))
               ELSE d1
     IN  objs' = [objs EXCEPT ![Self(w)] = [o EXCEPT !.dependencies = d2]]
  /\ at' = [at EXCEPT ![w].pc = "build"]
  /\ UNCHANGED <<single, args, hashseed, rest>>

\* _build_queries: the steps are appended to self._queries, or the sort raises
WBuild(w) ==
  /\ at[w].pc = "build"
  /\ LET o == objs[Self(w)]
         b == BuildQueries(o.sql, o.parsed, o.ctes, o.dependencies,
                           o.has_recursive, hashseed)
     IN  IF b.error = ""
         THEN /\ objs' = [objs EXCEPT ![Self(w)] =
                            [o EXCEPT !.queries = @ \o b.queries,
                                      !.parsed = b.parsed]]
              /\ at' = [at EXCEPT ![w].pc = "done"]
         ELSE /\ at' = [at EXCEPT ![w].pc = "failed"]
              /\ UNCHANGED objs
  /\ UNCHANGED <<single, args, hashseed, rest>>

NextParallel ==
  \E w \in Workers : WStart(w) \/ WCheck(w) \/ WExtract(w) \/ WDeps(w) \/ WBuild(w)

SpecParallel == InitParallel /\ [][NextParallel]_vars

\* one query of the pool family, executed where statements and the connect
\* call can fail
InitFaults ==
  /\ parsed \in PoolQueries
  /\ sql = RawSql(parsed)
  /\ ctes = <<>>
  /\ dependencies = <<>>
  /\ queries = <<>>
  /\ recursive_ctes = {}
  /\ has_recursive = FALSE
  /\ skip_decomposition = FALSE
  /\ skip_reason = ""
  /\ pc = "new"
  /\ error = ""
  /\ conn = "none"
  /\ session = {}
  /\ executed = 0
  /\ missing = {}
  /\ result = "pending"
  /\ fault = "none"
  /\ first = <<>>
  /\ args = <<>>
  /\ at = <<>>
  /\ objs = <<>>
  /\ hashseed = <<>>
  /\ RestIdle

NextFaults ==
  Construct \/ Connect \/ ExecuteStatement \/ Close \/ FailStatement \/ FailConnect

SpecFaults == InitFaults /\ [][NextFaults]_vars

\* ---- execute_batch_sql_to_dataframe: the frame it returns ----
MaxBatch == 3      \* statements of one batch

\* what the cursor holds after a statement that succeeded: no description,
\* a description and no rows, or a description and rows
Outcomes == {"no description", "no rows", "rows"}

\* pd.DataFrame(results, columns=columns) of statement i; empty is df.empty
DataFrame(i, outcome) == [stmt |-> i, empty |-> outcome # "rows"]

InitBatch ==
  /\ SessionIdle
  /\ PoolIdle
  /\ \E n \in 0..MaxBatch : stmts \in [1..n -> Outcomes]
  /\ cursor = 0
  /\ final_df = <<>>
  /\ returned = NotReturned
  /\ NormalizerIdle
  /\ RegistryIdle
  /\ ReplayIdle

\* (mutant) a statement without rows leaves final_df as it is
BatchExecuteKeepRows ==
  /\ returned = NotReturned
  /\ cursor < Len(stmts)
  /\ cursor' = cursor + 1
  /\ final_df' = IF stmts[cursor + 1] = "rows"
                 THEN <<DataFrame(cursor + 1, stmts[cursor + 1])>>
                 ELSE final_df
  /\ UNCHANGED <<single, pool, stmts, returned, normalizer, registry, replay>>

\* one round of the for loop: cursor.execute(sql), and final_df is assigned
\* whenever the cursor has a description
BatchExecute ==
  /\ returned = NotReturned
  /\ cursor < Len(stmts)
  /\ cursor' = cursor + 1
  /\ final_df' = IF stmts[cursor + 1] # "no description"
                 THEN <<DataFrame(cursor + 1, stmts[cursor + 1])>>
                 ELSE final_df
  /\ UNCHANGED <<single, pool, stmts, returned, normalizer, registry, replay>>

\* the return after the loop
BatchReturn ==
  /\ returned = NotReturned
  /\ cursor = Len(stmts)
  /\ returned' = IF final_df = <<>> \/ final_df[1].empty
                 THEN [df |-> 0, error |-> "No data returned"]
                 ELSE [df |-> final_df[1].stmt, error |-> "None"]
  /\ UNCHANGED <<single, pool, stmts, cursor, final_df, normalizer, registry, replay>>

NextBatch == BatchExecute \/ BatchReturn

SpecBatch == InitBatch /\ [][NextBatch]_vars

\* ---- _normalize_cte_references on the characters of a text ----
MaxText == 5       \* characters of the text given

Chars == {"a", "b", "\"", " "}

\* CTE names: a, b and the quoted alias "a b"
CteNames == {<<"a">>, <<"b">>, <<"a", " ", "b">>}

CharUpper(ch) == IF ch = "a" THEN "A" ELSE IF ch = "b" THEN "B" ELSE ch

CharLower(ch) == IF ch = "A" THEN "a" ELSE IF ch = "B" THEN "b" ELSE ch

StrUpper(str) == [i \in DOMAIN str |-> CharUpper(str[i])]

StrLower(str) == [i \in DOMAIN str |-> CharLower(str[i])]

\* the characters of the class ["\w]
QuoteOrWord == {"a", "b", "A", "B", "\""}

InQuotes(str) == <<"\"">> \o str \o <<"\"">>

\* the five substitutions of the loop body, in the order of the code
Rules == <<"re.sub quoted", "replace exact", "replace upper", "replace lower",
           "re.sub word">>

\* the characters a rule looks for
Pattern(cte_name, rule) ==
  CASE rule = "re.sub quoted" -> InQuotes(cte_name)
    [] rule = "replace exact" -> InQuotes(cte_name)
    [] rule = "replace upper" -> InQuotes(StrUpper(cte_name))
    [] rule = "replace lower" -> InQuotes(StrLower(cte_name))
    [] rule = "re.sub word" -> cte_name

IgnoresCase(rule) == rule \in {"re.sub quoted", "re.sub word"}

\* the rule matches at position p of str
MatchesAt(str, p, cte_name, rule) ==
  LET pat == Pattern(cte_name, rule)
      after == p + Len(pat)
  IN  /\ after - 1 <= Len(str)
      /\ \A k \in DOMAIN pat :
           IF IgnoresCase(rule) THEN CharLower(str[p + k - 1]) = CharLower(pat[k])
           ELSE str[p + k - 1] = pat[k]
      /\ rule = "re.sub word" =>
           /\ p = 1 \/ str[p - 1] \notin QuoteOrWord
           /\ after > Len(str) \/ str[after] \notin QuoteOrWord

RECURSIVE Substitute(_, _, _, _)
\* re.sub / str.replace: the matches from left to right, none overlapping
\* another, each replaced by upper_name
Substitute(str, p, cte_name, rule) ==
  IF p > Len(str) THEN <<>>
  ELSE IF MatchesAt(str, p, cte_name, rule)
       THEN StrUpper(cte_name)
            \o Substitute(str, p + Len(Pattern(cte_name, rule)), cte_name, rule)
       ELSE <<str[p]>> \o Substitute(str, p + 1, cte_name, rule)

RECURSIVE ApplyRules(_, _, _)
ApplyRules(str, cte_name, rules) ==
  IF rules = <<>> THEN str
  ELSE ApplyRules(Substitute(str, 1, cte_name, Head(rules)), cte_name, Tail(rules))

RECURSIVE NormalizeText(_, _)
\* _normalize_cte_references(sql, cte_set), names being cte_set as iterated
NormalizeText(str, names) ==
  IF names = <<>> THEN str
  ELSE NormalizeText(ApplyRules(str, Head(names), Rules), Tail(names))

RECURSIVE Texts(_)
Texts(n) ==
  IF n = 0 THEN {<<>>}
  ELSE LET shorter == Texts(n - 1)
       IN  shorter \cup {Append(t, ch) : t \in {u \in shorter : Len(u) = n - 1},
                                         ch \in Chars}

InitNormalize ==
  /\ SessionIdle
  /\ PoolIdle
  /\ BatchIdle
  /\ RegistryIdle
  /\ ReplayIdle
  /\ norm_sql \in Texts(MaxText)
  /\ \E cte_set \in SUBSET CteNames : norm_order \in Perms(cte_set)
  /\ norm_out = <<>>

\* a call of _normalize_cte_references: on the text given, then on its own
\* result
NormalizeCall ==
  /\ norm_sql # <<>>
  /\ Len(norm_out) < 2
  /\ norm_out' = Append(norm_out,
                        NormalizeText(IF norm_out = <<>> THEN norm_sql
                                      ELSE norm_out[Len(norm_out)], norm_order))
  /\ UNCHANGED <<single, pool, batch, registry, replay, norm_sql, norm_order>>

NextNormalize == NormalizeCall

SpecNormalize == InitNormalize /\ [][NextNormalize]_vars

\* ---- the session registry of the agent's Snowflake tool ----
MaxCalls == 4      \* calls of the tool functions in one run

SessionIds == {"default", "s1"}

\* del d[k]
DictDel(d, k) == SelectSeq(d, LAMBDA e : e.key # k)

IsClosed(conns, c) == conns[c].state = "closed"

\* (mutant) a registered connection is returned whether it is closed or not
GetOrCreateNoClosedCheck(reg, conns, session_id, connect_ok) ==
  IF ~HasKey(reg, session_id)
  THEN IF connect_ok
       THEN [reg |-> DictSet(reg, session_id, Len(conns) + 1),
             conns |-> Append(conns, [sid |-> session_id, state |-> "open"]),
             conn |-> Len(conns) + 1]
       ELSE [reg |-> reg, conns |-> conns, conn |-> 0]
  ELSE [reg |-> reg, conns |-> conns, conn |-> DictGet(reg, session_id)]

\* get_or_create_connection: the registry and the connections as the call
\* leaves them, and the connection returned (0: connect raised)
GetOrCreate(reg, conns, session_id, connect_ok) ==
  IF ~HasKey(reg, session_id) \/ IsClosed(conns, DictGet(reg, session_id))
  THEN IF connect_ok
       THEN [reg |-> DictSet(reg, session_id, Len(conns) + 1),
             conns |-> Append(conns, [sid |-> session_id, state |-> "open"]),
             conn |-> Len(conns) + 1]
       ELSE [reg |-> reg, conns |-> conns, conn |-> 0]
  ELSE [reg |-> reg, conns |-> conns, conn |-> DictGet(reg, session_id)]

InitRegistry ==
  /\ SessionIdle
  /\ PoolIdle
  /\ BatchIdle
  /\ NormalizerIdle
  /\ RegistryIdle
  /\ ReplayIdle

\* a call of get_or_create_connection
GetOrCreateConnection ==
  /\ calls < MaxCalls
  /\ \E session_id \in SessionIds, connect_ok \in BOOLEAN :
       LET g == GetOrCreate(session_connections, connections, session_id, connect_ok)
       IN  /\ session_connections' = g.reg
           /\ connections' = g.conns
           /\ last_call' = [op |-> "get_or_create_connection", sid |-> session_id,
                            conn |-> g.conn, content |-> ""]
  /\ calls' = calls + 1
  /\ UNCHANGED <<single, pool, batch, normalizer, replay, threads>>

\* a call of execute_sql_step: the connection of the session, then
\* cursor.execute, whose exceptions become the content returned
ExecuteSqlStep ==
  /\ calls < MaxCalls
  /\ \E session_id \in SessionIds, connect_ok \in BOOLEAN,
        outcome \in {"Query executed successfully", "SQL Error", "Unexpected error"} :
       LET g == GetOrCreate(session_connections, connections, session_id, connect_ok)
       IN  /\ session_connections' = g.reg
           /\ connections' = g.conns
           /\ last_call' = [op |-> "execute_sql_step", sid |-> session_id,
                            conn |-> g.conn,
                            content |-> IF g.conn = 0 THEN "Unexpected error"
                                        ELSE outcome]
  /\ calls' = calls + 1
  /\ UNCHANGED <<single, pool, batch, normalizer, replay, threads>>

\* a call of close_session
CloseSession ==
  /\ calls < MaxCalls
  /\ \E session_id \in SessionIds :
       /\ IF HasKey(session_connections, session_id)
          THEN /\ connections' =
                    [connections EXCEPT ![DictGet(session_connections, session_id)].state
                                           = "closed"]
               /\ session_connections' = DictDel(session_connections, session_id)
          ELSE UNCHANGED <<session_connections, connections>>
       /\ last_call' = [op |-> "close_session", sid |-> session_id, conn |-> 0,
                        content |-> ""]
  /\ calls' = calls + 1
  /\ UNCHANGED <<single, pool, batch, normalizer, replay, threads>>

\* a registered connection is closed by the caller that holds it or by the
\* server: is_closed() is true of it from now on
ConnectionCloses ==
  /\ \E i \in DOMAIN session_connections :
       LET c == session_connections[i].val
       IN  /\ connections[c].state = "open"
           /\ connections' = [connections EXCEPT ![c].state = "closed"]
  /\ UNCHANGED <<single, pool, batch, normalizer, replay, session_connections, calls,
                 last_call, threads>>

NextRegistry ==
  GetOrCreateConnection \/ ExecuteSqlStep \/ CloseSession \/ ConnectionCloses

SpecRegistry == InitRegistry /\ [][NextRegistry]_vars

\* ---- two threads inside get_or_create_connection ----
Callers == {1, 2}

SessionOrder == <<"default", "s1">>

RECURSIVE RegistryOf(_, _)
\* the registry and the connections after earlier calls: per session id no
\* entry, an open connection, or a registered connection that was closed
RegistryOf(ids, status) ==
  IF ids = <<>> THEN [reg |-> <<>>, conns |-> <<>>]
  ELSE LET r == RegistryOf(Tail(ids), status)
           id == Head(ids)
       IN  IF status[id] = "absent" THEN r
           ELSE [reg |-> DictSet(r.reg, id, Len(r.conns) + 1),
                 conns |-> Append(r.conns, [sid |-> id, state |-> status[id]])]

InitRace ==
  /\ SessionIdle
  /\ PoolIdle
  /\ BatchIdle
  /\ NormalizerIdle
  /\ ReplayIdle
  /\ \E status \in [SessionIds -> {"absent", "open", "closed"}] :
       /\ session_connections = RegistryOf(SessionOrder, status).reg
       /\ connections = RegistryOf(SessionOrder, status).conns
  /\ calls = 0
  /\ last_call = NoCall
  /\ threads \in [Callers -> [pc : {"check"}, sid : SessionIds, mine : {0}, got : {0}]]

\* line 35: the condition of the if
ThreadCheck(t) ==
  /\ threads[t].pc = "check"
  /\ LET session_id == threads[t].sid
         create == \/ ~HasKey(session_connections, session_id)
                   \/ IsClosed(connections, DictGet(session_connections, session_id))
     IN  threads' = [threads EXCEPT ![t].pc = IF create THEN "connect" ELSE "return"]
  /\ UNCHANGED <<single, pool, batch, normalizer, replay, session_connections, connections,
                 calls, last_call>>

\* line 39, right-hand side: snowflake.connector.connect(**creds)
ThreadConnect(t) ==
  /\ threads[t].pc = "connect"
  /\ connections' = Append(connections, [sid |-> threads[t].sid, state |-> "open"])
  /\ threads' = [threads EXCEPT ![t].pc = "store", ![t].mine = Len(connections) + 1]
  /\ UNCHANGED <<single, pool, batch, normalizer, replay, session_connections, calls,
                 last_call>>

\* line 39, the assignment to _session_connections[session_id]
ThreadStore(t) ==
  /\ threads[t].pc = "store"
  /\ session_connections' =
       DictSet(session_connections, threads[t].sid, threads[t].mine)
  /\ threads' = [threads EXCEPT ![t].pc = "return"]
  /\ UNCHANGED <<single, pool, batch, normalizer, replay, connections, calls, last_call>>

\* line 40: return _session_connections[session_id]
ThreadReturn(t) ==
  /\ threads[t].pc = "return"
  /\ threads' = [threads EXCEPT ![t].pc = "done",
                                ![t].got = DictGet(session_connections, threads[t].sid)]
  /\ UNCHANGED <<single, pool, batch, normalizer, replay, session_connections, connections,
                 calls, last_call>>

NextRace ==
  \E t \in Callers :
    ThreadCheck(t) \/ ThreadConnect(t) \/ ThreadStore(t) \/ ThreadReturn(t)

SpecRace == InitRace /\ [][NextRace]_vars

\* ---- extract_sql_answers: the replay of a recorded conversation ----
MaxTurns == 2      \* assistant messages with SQL tool calls
MaxToolCalls == 2  \* tool calls of one assistant message

\* what the try block of the tool left in content
ToolOutcomes == {"Query executed successfully", "SQL Error"}

\* the content a tool function returns
ToolContent(name, body) == <<"EXECUTION RESULT of [" \o name \o "]:", body>>

\* str.startswith on a content, whose first line is its first element
StartsWith(content, prefix) == content # <<>> /\ content[1] = prefix

\* the SQL tool calls an assistant may make: a named step, an unnamed step,
\* or execute_snowflake_sql; body is what the tool answered to it
CallShapes ==
  [name : {"execute_sql_step"}, step_name : {"", "s1", "s2"}, body : ToolOutcomes]
    \cup [name : {"execute_snowflake_sql"}, step_name : {""}, body : ToolOutcomes]

TurnShapes == UNION {[1..k -> CallShapes] : k \in 1..MaxToolCalls}

AssistantItem(tool_calls) ==
  [role |-> "assistant", tool_calls |-> tool_calls, content |-> <<>>]

ToolItem(content) == [role |-> "tool", tool_calls |-> <<>>, content |-> content]

\* the items of turn j: the assistant message, whose calls carry the SQL
\* texts numbered from MaxToolCalls * (j - 1) + 1, and one tool message for
\* each call
TurnItems(shape, j) ==
  <<AssistantItem([k \in DOMAIN shape |->
       [name |-> shape[k].name,
        arguments |-> [sql |-> MaxToolCalls * (j - 1) + k,
                       step_name |-> shape[k].step_name, answer |-> 0]]])>>
  \o [k \in DOMAIN shape |-> ToolItem(ToolContent(shape[k].name, shape[k].body))]

\* the last turn: terminate(answer)
TerminateItems ==
  <<AssistantItem(<<[name |-> "terminate",
                     arguments |-> [sql |-> 0, step_name |-> "", answer |-> 99]]>>),
    ToolItem(<<"EXECUTION RESULT of [terminate]:", "99">>)>>

RECURSIVE ConversationOf(_, _)
ConversationOf(shapes, j) ==
  IF j > Len(shapes) THEN TerminateItems
  ELSE TurnItems(shapes[j], j) \o ConversationOf(shapes, j + 1)

InitReplay ==
  /\ SessionIdle
  /\ PoolIdle
  /\ BatchIdle
  /\ NormalizerIdle
  /\ RegistryIdle
  /\ \E n \in 1..MaxTurns :
       \E shapes \in [1..n -> TurnShapes] : conversation = ConversationOf(shapes, 1)
  /\ item = 1
  /\ active_steps = <<>>
  /\ refinement_history = <<>>
  /\ final_answer = <<>>
  /\ output = NoOutput

\* lines 62-68: the call counts as failed when the item after the assistant
\* message is a tool message that starts with an error prefix
Success(conv, i) ==
  ~ /\ i + 1 <= Len(conv)
    /\ conv[i + 1].role = "tool"
    /\ \/ StartsWith(conv[i + 1].content, "SQL Error")
       \/ StartsWith(conv[i + 1].content, "Unexpected error")

\* lines 71-74: the block of a call, whose SQL is a SELECT: a named
\* execute_sql_step is wrapped into CREATE OR REPLACE TEMP TABLE
SqlBlock(tc) ==
  [name |-> tc.name,
   label |-> IF tc.arguments.step_name # "" THEN tc.arguments.step_name ELSE "check",
   sql |-> tc.arguments.sql,
   wrapped |-> tc.name = "execute_sql_step" /\ tc.arguments.step_name # ""]

\* lines 49-89 for one tool call; st is [active, history, final]
ReplayCall(tc, success, st) ==
  IF tc.name \in {"execute_sql_step", "execute_snowflake_sql"}
  THEN IF ~success
       THEN [st EXCEPT !.history = Append(@, <<SqlBlock(tc), "FAILED ATTEMPT">>)]
       ELSE IF tc.arguments.step_name = ""
       THEN [st EXCEPT !.history = Append(@, <<SqlBlock(tc), "EXPLORATORY CHECK">>)]
       ELSE [active |-> DictSet(st.active, tc.arguments.step_name, SqlBlock(tc)),
             history |-> IF HasKey(st.active, tc.arguments.step_name)
                         THEN Append(st.history,
                                     <<DictGet(st.active, tc.arguments.step_name),
                                       "SUPERSEDED VERSION">>)
                         ELSE st.history,
             final |-> st.final]
  ELSE IF tc.name = "terminate"
  THEN [st EXCEPT !.final = <<[name |-> "final_answer", label |-> "",
                               sql |-> tc.arguments.answer, wrapped |-> FALSE]>>]
  ELSE st

RECURSIVE ReplayCalls(_, _, _)
ReplayCalls(tool_calls, success, st) ==
  IF tool_calls = <<>> THEN st
  ELSE ReplayCalls(Tail(tool_calls), success, ReplayCall(Head(tool_calls), success, st))

\* one round of the loop over the conversation
ReplayItem ==
  /\ item >= 1
  /\ item <= Len(conversation)
  /\ LET st == IF conversation[item].role = "assistant"
               THEN ReplayCalls(conversation[item].tool_calls,
                                Success(conversation, item),
                                [active |-> active_steps,
                                 history |-> refinement_history,
                                 final |-> final_answer])
               ELSE [active |-> active_steps, history |-> refinement_history,
                     final |-> final_answer]
     IN  /\ active_steps' = st.active
         /\ refinement_history' = st.history
         /\ final_answer' = st.final
  /\ item' = item + 1
  /\ UNCHANGED <<single, pool, batch, normalizer, registry, conversation, output>>

\* lines 92-124: the refinement history and the final executable sequence
WriteOutput ==
  /\ item = Len(conversation) + 1
  /\ ~output.written
  /\ active_steps # <<>> \/ final_answer # <<>>
  /\ output' = [written |-> TRUE,
                history |-> refinement_history,
                sequence |-> [i \in DOMAIN active_steps |-> active_steps[i].val]
                             \o final_answer]
  /\ UNCHANGED <<single, pool, batch, normalizer, registry, conversation, item,
                 active_steps, refinement_history, final_answer>>

NextReplay == ReplayItem \/ WriteOutput

SpecReplay == InitReplay /\ [][NextReplay]_vars


\* ---- properties ----
Built == pc = "built"

Decomposed == Built /\ ~skip_decomposition /\ ~has_recursive

StepNames == [i \in DOMAIN queries |-> queries[i].name]

\* CTE j of the input names itself (in any casing) in its own body
SelfReferencing(j) ==
  \E t \in parsed.ctes[j].tables : lower(Name(t)) = lower(parsed.ctes[j].alias)

\* C1: in the plan of a query that is neither skipped nor recursive, every
\* name in a step's dependencies is the name of a step at a smaller index.
C1_PrerequisitesFirst ==
  Decomposed =>
    \A i \in DOMAIN queries :
      \A d \in Range(queries[i].dependencies) :
        \E j \in 1..(i - 1) : queries[j].name = d

\* C2: running the plan in one session, no statement reads a CTE temp table
\* before a statement of the plan has created it.
C2_NoReadBeforeCreate == missing = {}

\* C3: a constructed decomposer has a non-empty plan that ends with the step
\* FINAL_RESULT; no materialization step comes after FINAL_RESULT.
C3_FinalResultLast ==
  Built =>
    /\ queries # <<>>
    /\ queries[Len(queries)].name = "FINAL_RESULT"
    /\ \A i \in DOMAIN queries :
         queries[i].name = "FINAL_RESULT" => i = Len(queries)

\* C4: when a skip condition fires the plan is the single step FINAL_RESULT
\* with the input text and no dependencies, and the CTE list, the dependency
\* mapping and the recursive set stay empty, has_recursive stays false.
C4_SkipLeavesNothingBehind ==
  (Built /\ skip_decomposition) =>
    /\ queries = <<[name |-> "FINAL_RESULT", sql |-> sql, dependencies |-> <<>>]>>
    /\ ctes = <<>>
    /\ dependencies = <<>>
    /\ recursive_ctes = {}
    /\ has_recursive = FALSE

C4_Witness ==
  /\ Built /\ skip_decomposition
  /\ parsed.ctes # <<>>
  /\ \E j \in DOMAIN parsed.ctes : parsed.ctes[j].tables # {}
  /\ parsed.tables # {}

\* C5: the skip conditions are tried in the order WITH RECURSIVE, more than
\* one WITH, subquery with CTEs; the first that holds gives the reason, and
\* skip_decomposition is true exactly when one of the three holds.
C5_SkipReasonOrder ==
  Built =>
    LET c1 == HasWithRecursive(sql)
        c2 == WithCount(sql) > 1
        c3 == SubqueryHasCtes(parsed)
    IN  /\ skip_decomposition <=> (c1 \/ c2 \/ c3)
        /\ c1 => skip_reason = "WITH RECURSIVE detected"
        /\ (c2 /\ ~c1) => skip_reason = "Nested WITH clauses detected"
        /\ (c3 /\ ~c1 /\ ~c2) => skip_reason = "CTEs inside subquery"
        /\ ~(c1 \/ c2 \/ c3) => skip_reason = ""

C5_Witness ==
  /\ Built
  /\ HasWithRecursive(sql)
  /\ WithCount(sql) > 1
  /\ SubqueryHasCtes(parsed)
  /\ skip_reason = "WITH RECURSIVE detected"

\* C6: when some CTE of a query that is not skipped names itself in its own
\* body, construction succeeds with has_recursive true and the plan is the
\* single step FINAL_RESULT with the input text and no dependencies: no CTE
\* is materialized, the non-recursive ones included.
C6_RecursiveAllOrNothing ==
  (pc # "new" /\ ~CheckSkipConditions(sql, parsed).skip
     /\ \E j \in DOMAIN parsed.ctes : SelfReferencing(j)) =>
    /\ Built
    /\ has_recursive
    /\ queries = <<[name |-> "FINAL_RESULT", sql |-> sql, dependencies |-> <<>>]>>

C6_Witness ==
  /\ Built /\ has_recursive
  /\ \E j, k \in DOMAIN parsed.ctes : SelfReferencing(j) /\ ~SelfReferencing(k)
  /\ Len(queries) = 1

\* C7: a CTE definition held by the decomposer is in the recursive set exactly
\* when a table of its own body has its name under case-insensitive
\* comparison (a cycle through another CTE does not count), and has_recursive
\* is true exactly when the recursive set is not empty.
C7_RecursiveSet ==
  Built =>
    /\ recursive_ctes \subseteq Range(DictKeys(ctes))
    /\ \A j \in DOMAIN parsed.ctes :
         HasKey(ctes, parsed.ctes[j].alias) =>
           (parsed.ctes[j].alias \in recursive_ctes <=> SelfReferencing(j))
    /\ has_recursive <=> recursive_ctes # {}

\* a reads A (itself) and b; b reads a: b is on a cycle and not recursive
C7_Witness ==
  /\ Built /\ ~skip_decomposition
  /\ \E j, k \in DOMAIN parsed.ctes :
       /\ parsed.ctes[j].alias \in recursive_ctes
       /\ parsed.ctes[j].alias \notin parsed.ctes[j].tables
       /\ parsed.ctes[k].alias \notin recursive_ctes
       /\ \E t \in parsed.ctes[j].tables : lower(t) = lower(parsed.ctes[k].alias)
       /\ \E t \in parsed.ctes[k].tables : lower(t) = lower(parsed.ctes[j].alias)

\* C8: for every CTE C of a query that is not skipped, the dependency list
\* recorded for C holds, once each, exactly the declared CTEs other than C
\* whose case-folded name is the case-folded name of a table of C's body.
C8_CteDependencies ==
  (Built /\ ~skip_decomposition) =>
    \A j \in DOMAIN parsed.ctes :
      LET c == parsed.ctes[j]
          recorded == DictGet(dependencies, c.alias)
      IN  /\ Range(recorded) =
               {n \in CteSet(parsed) \ {c.alias} :
                  \E t \in c.tables : lower(t) = lower(n)}
          /\ Cardinality(Range(recorded)) = Len(recorded)

\* C9: the sentinel's dependencies are the CTEs named by the tables of the
\* outer query body; a CTE named only inside CTE bodies is not among them.
C9_SentinelDependencies ==
  (Built /\ ~skip_decomposition) =>
    Range(DictGetOr(dependencies, SENTINEL, <<>>)) =
      {n \in CteSet(parsed) :
         \E t \in parsed.tables \cup parsed.rest : lower(t) = lower(n)}

\* C10: in the dependency mapping of a decomposed query no node has the
\* sentinel __FINAL__ among its dependencies, whatever the CTEs are called.
C10_SentinelNoIncomingEdges ==
  Decomposed =>
    \A i \in DOMAIN dependencies : SENTINEL \notin Range(dependencies[i].val)

\* the texts of the statements sent to the database so far
ExecutedStatements == [i \in 1..executed |-> queries[i].sql]

\* CTE j of the input reads CTE k, another CTE, in any casing
Reads(j, k) ==
  /\ j # k
  /\ \E t \in parsed.ctes[j].tables : lower(Name(t)) = lower(parsed.ctes[k].alias)

\* some CTEs of the input, two or more, read each other in a circle
HasMultiNodeCycle ==
  \E S \in SUBSET DOMAIN parsed.ctes :
    /\ Cardinality(S) >= 2
    /\ \E p \in Perms(S) :
         \A i \in DOMAIN p : Reads(p[i], p[(i % Len(p)) + 1])

\* C11: the plan of a query that is neither skipped nor recursive has one
\* step more than the query has CTEs: exactly one step FINAL_RESULT, and for
\* every declared CTE exactly one step named by its alias, whose sql is
\* CREATE OR REPLACE TEMP TABLE <upper alias> AS <normalized body> and whose
\* dependencies are the dependency list recorded for the CTE.
C11_OneStepPerCte ==
  Decomposed =>
    /\ Len(queries) = Len(parsed.ctes) + 1
    /\ Cardinality({i \in DOMAIN queries : queries[i].name = "FINAL_RESULT"}) = 1
    /\ \A j \in DOMAIN parsed.ctes :
         LET c == parsed.ctes[j]
             steps == {i \in DOMAIN queries : queries[i].name = c.alias}
         IN  /\ Cardinality(steps) = 1
             /\ \A i \in steps :
                  /\ \E ord \in Perms(CteSet(parsed)) :
                       queries[i].sql =
                         <<"CREATE", "OR", "REPLACE", "TEMP", "TABLE", upper(c.alias), "AS">>
                         \o NormalizeCteReferences(BodySql(c.tables), CteSet(parsed), ord)
                  /\ queries[i].dependencies = DictGetOr(dependencies, c.alias, <<>>)

\* C12: when two or more CTEs read each other in a circle the constructor
\* raises the cycle error, no plan is left behind, and execute_decomposed_sql
\* returns an error without opening a connection or executing a statement.
C12_CycleFails ==
  (pc # "new" /\ HasMultiNodeCycle) =>
    /\ pc = "failed"
    /\ error = "CycleError"
    /\ queries = <<>>
    /\ result = "Decomposition error"
    /\ conn = "none"
    /\ executed = 0

\* C13: when execute_decomposed_sql has returned for a query whose
\* decomposition was skipped, found a recursive CTE or raised an error, the
\* statements it executed are the original text, once, and nothing else.
C13_FallbackToOriginal ==
  (result # "pending" /\ (skip_decomposition \/ has_recursive \/ pc = "failed")) =>
    ExecutedStatements = <<sql>>

\* C14: an input without CTEs that triggers no skip condition is constructed
\* and its plan is exactly one step, FINAL_RESULT, with no dependencies.
C14_ZeroCtesOneStep ==
  (pc # "new" /\ parsed.ctes = <<>> /\ ~CheckSkipConditions(sql, parsed).skip) =>
    /\ Built
    /\ Len(queries) = 1
    /\ queries[1].name = "FINAL_RESULT"
    /\ queries[1].dependencies = <<>>

\* C17: construction leaves its inputs as they were: the stored text is the
\* input text and the stored tree is still the parse of that text, with its
\* WITH clause and all its CTEs.
C17_InputsUnchanged ==
  Built =>
    /\ RawSql(parsed) = sql
    /\ lower(sql[1]) = "with" => parsed.ctes # <<>>

\* a plan was built from a query with two CTEs
C17_Witness ==
  /\ Decomposed
  /\ Len(parsed.ctes) >= 2
  /\ Len(queries) = Len(parsed.ctes) + 1
  /\ WithCount(queries[Len(queries)].sql) = 0

\* all table references of the input, CTE bodies and outer query
AllTables == parsed.tables \cup parsed.rest
             \cup UNION {parsed.ctes[j].tables : j \in DOMAIN parsed.ctes}

\* C15: in a decomposed query every reference to a declared CTE, in whatever
\* case and quoted or not, stands for one node: a dependency list holds
\* declared aliases, no two of them equal under case folding, and it has an
\* entry for every other CTE the body names.  In every emitted statement a
\* token that names a declared CTE is the upper-case unquoted alias, which is
\* the table name of the CREATE OR REPLACE TEMP TABLE statement of that CTE.
C15_CanonicalReferences ==
  Decomposed =>
    /\ \A i \in DOMAIN dependencies :
         LET d == dependencies[i].val
         IN  /\ Range(d) \subseteq CteSet(parsed)
             /\ \A x, y \in DOMAIN d : lower(d[x]) = lower(d[y]) => x = y
    /\ \A j \in DOMAIN parsed.ctes :
         \A t \in parsed.ctes[j].tables :
           (/\ \E c \in CteSet(parsed) : lower(Name(t)) = lower(c)
            /\ lower(Name(t)) # lower(parsed.ctes[j].alias))
           => \E d \in Range(DictGetOr(dependencies, parsed.ctes[j].alias, <<>>)) :
                lower(d) = lower(Name(t))
    /\ \A i \in DOMAIN queries :
         /\ \A k \in DOMAIN queries[i].sql :
              \A c \in CteSet(parsed) :
                lower(Name(queries[i].sql[k])) = lower(c) => queries[i].sql[k] = upper(c)
         /\ IsCreate(queries[i].sql) =>
              TableCreated(queries[i].sql) = upper(queries[i].name)

\* a CTE is named in another case than declared and in double quotes, and
\* the plan materializes it
C15_Witness ==
  /\ Decomposed
  /\ \E c \in CteSet(parsed) :
       /\ \E t \in AllTables : IsQuoted(t) /\ lower(Name(t)) = lower(c)
       /\ \E t \in AllTables : ~IsQuoted(t) /\ t # c /\ lower(t) = lower(c)
       /\ \E i \in DOMAIN queries : queries[i].name = c
       /\ \E i \in DOMAIN queries :
            queries[i].name # c /\ Contains(queries[i].sql, upper(c))
            /\ c \in Range(queries[i].dependencies)

\* C16: the CTE names of a decomposed query are unique under case folding: no
\* two steps of the plan create the same temp table and every case-folded
\* name stands for exactly one CTE definition.
C16_UniqueNames ==
  Decomposed =>
    /\ \A i, j \in DOMAIN queries :
         (i # j /\ IsCreate(queries[i].sql) /\ IsCreate(queries[j].sql))
         => TableCreated(queries[i].sql) # TableCreated(queries[j].sql)
    /\ \A l \in {lower(n) : n \in CteSet(parsed)} :
         Cardinality({j \in DOMAIN parsed.ctes : lower(parsed.ctes[j].alias) = l}) = 1

\* what holds of every state of an execution
BatchState ==
  /\ (result # "pending" /\ Built /\ queries # <<>>) => conn # "open"
  /\ (result # "pending" /\ Built /\ queries # <<>> /\ conn = "none")
       => fault = "Exception" /\ executed = 0
  /\ (result # "pending" /\ (fault # "none" \/ missing # {}))
       => result \in {"SQL Error", "Query timed out", "Error"}
  /\ result = "ok" => executed = Len(queries) /\ fault = "none" /\ missing = {}
  /\ executed <= Len(queries)

\* what holds of every step of an execution
BatchStep ==
  /\ executed' # executed =>
       /\ executed' = executed + 1
       /\ conn = "open" /\ conn' = "open"
       /\ fault = "none" /\ missing = {}
  /\ conn = "closed" => conn' = "closed"
  /\ conn = "open" => conn' \in {"open", "closed"}
  /\ (fault # "none" \/ missing # {}) => executed' = executed /\ session' = session

\* C20: the statements of a plan are executed one after the other in list
\* order, all on the one connection while it is open; once a statement has
\* failed no further statement is executed and the value returned is an
\* error; and whenever the function has returned, after success, an SQL
\* error, a timeout or another exception, a connection it opened is closed.
C20_BatchExecution == []BatchState /\ [][BatchStep]_vars

\* the second or a later statement timed out: the connection is closed, the
\* statements after it were not executed and an error was returned
C20_Witness ==
  /\ result = "Query timed out"
  /\ conn = "closed"
  /\ executed >= 1
  /\ executed + 1 < Len(queries)

\* C19: two decompositions of one text give the same step names in the same
\* order and the same dependency list for every step.
C19_Deterministic ==
  (Built /\ first # <<>>) =>
    /\ StepNames = [i \in DOMAIN first[1] |-> first[1][i].name]
    /\ \A i \in DOMAIN queries :
         i \in DOMAIN first[1] => queries[i].dependencies = first[1][i].dependencies

\* the decomposition of worker w's query on its own, in the same process
Alone(w) == Parse(RawSql(args[w]), args[w], hashseed)

\* C18: however the constructor calls of the workers interleave, a worker
\* that is done holds the plan, the dependency mapping and the skip decision
\* that the decomposition of its query alone gives, and a worker whose
\* constructor raised has a query whose decomposition alone raises.
C18_NoInterference ==
  \A w \in DOMAIN at :
    LET o == objs[Self(w)]
    IN  /\ at[w].pc = "done" =>
             /\ Alone(w).error = ""
             /\ o.queries = Alone(w).queries
             /\ o.dependencies = Alone(w).dependencies
             /\ o.skip_decomposition = Alone(w).skip_decomposition
             /\ o.skip_reason = Alone(w).skip_reason
        /\ at[w].pc = "failed" => Alone(w).error # ""

\* worker 1 finished a plan of three steps while worker 2, given another
\* query, is between the steps of its own constructor call
C18_Witness ==
  /\ DOMAIN at = Workers
  /\ at[1].pc = "done"
  /\ Len(objs[1].queries) >= 3
  /\ at[2].pc = "build"
  /\ args[1] # args[2]
  /\ objs[2].ctes # <<>>

\* the statements of the batch that left a description, and those with rows
Described == {i \in DOMAIN stmts : stmts[i] # "no description"}

WithRows == {i \in DOMAIN stmts : stmts[i] = "rows"}

Last(S) == CHOOSE i \in S : \A j \in S : j <= i

\* C21 (as stated): when every statement succeeded and some statement
\* produced rows, the rows of the last such statement are returned, also
\* when a later statement left a description with zero rows.
C21_LastRowsReturned ==
  (returned # NotReturned /\ WithRows # {}) =>
     returned = [df |-> Last(WithRows), error |-> "None"]

\* C21 (amended): when every statement succeeded, the function returns the
\* frame of the last statement that left a description if that frame has
\* rows, and "No data returned" if it has none or no statement left one.
C21_LastDescribedReturned ==
  returned # NotReturned =>
     IF Described # {} /\ stmts[Last(Described)] = "rows"
     THEN returned = [df |-> Last(Described), error |-> "None"]
     ELSE returned = [df |-> 0, error |-> "No data returned"]

\* a batch returned "No data returned" although an earlier statement had rows
C21_Witness ==
  /\ returned = [df |-> 0, error |-> "No data returned"]
  /\ WithRows # {}
  /\ stmts[Last(Described)] = "no rows"
  /\ Last(WithRows) < Last(Described)

\* ---- the results of a query and of its plan, as terms over the tables ----
\* the object an identifier names: unquoted identifiers are stored in upper
\* case, quoted ones as written
Ident(s) == IF IsQuoted(s) THEN Unquoted[s] ELSE upper(s)

BaseTable(id) == [op |-> "table", id |-> id, args |-> {}]

SelectFrom(vals, where) ==
  [op |-> "select", id |-> IF where THEN "where" ELSE "", args |-> vals]

UnionOf(v1, v2) == [op |-> "union", id |-> "", args |-> {v1, v2}]

StatusOf(id) == [op |-> "created", id |-> id, args |-> {}]

\* the table a name stands for where the tables of env are in scope
Lookup(t, env) == IF HasKey(env, Ident(t)) THEN DictGet(env, Ident(t)) ELSE BaseTable(Ident(t))

RECURSIVE CteScope(_, _)
\* the CTEs of a WITH clause, each evaluated where the earlier ones are in scope
CteScope(cs, env) ==
  IF cs = <<>> THEN env
  ELSE CteScope(Tail(cs),
         DictSet(env, Ident(Head(cs).alias),
                 SelectFrom({Lookup(t, env) : t \in Head(cs).tables}, FALSE)))

\* the result of the original statement
OriginalResult(tree) ==
  LET env == CteScope(tree.ctes, <<>>)
      head == SelectFrom({Lookup(t, env) : t \in tree.tables}, tree.lit)
  IN  IF tree.kind = "Union"
      THEN UnionOf(head, SelectFrom({Lookup(t, env) : t \in tree.rest}, FALSE))
      ELSE head

\* the result of the SELECT written at positions lo..hi of a statement
SelectResult(stmt, lo, hi, tabs) ==
  SelectFrom({Lookup(stmt[i], tabs) : i \in {j \in lo..hi : InFromList(stmt, j)}},
             \E i \in lo..hi : stmt[i] = "WHERE")

\* the result of the query written from position lo of a statement
QueryResult(stmt, lo, tabs) ==
  IF \E u \in lo..Len(stmt) : stmt[u] = "UNION"
  THEN LET u == CHOOSE i \in lo..Len(stmt) : stmt[i] = "UNION"
       IN  UnionOf(SelectResult(stmt, lo, u - 1, tabs),
                   SelectResult(stmt, u + 1, Len(stmt), tabs))
  ELSE SelectResult(stmt, lo, Len(stmt), tabs)

RECURSIVE PlanResult(_, _, _)
\* the statements of a plan run in order in one session: a CREATE stores the
\* result of its body as a temp table; res is the result of the statement
\* run last
PlanResult(qs, tabs, res) ==
  IF qs = <<>> THEN res
  ELSE LET stmt == Head(qs).sql
       IN  IF IsCreate(stmt)
           THEN PlanResult(Tail(qs),
                           DictSet(tabs, Ident(TableCreated(stmt)),
                                   QueryResult(stmt, 8, tabs)),
                           StatusOf(Ident(TableCreated(stmt))))
           ELSE PlanResult(Tail(qs), tabs, QueryResult(stmt, 1, tabs))

\* C22: for every query that is decomposed (not skipped, not recursive), the
\* result of the final statement of the plan, each temp table holding the
\* result of its body over the tables created before it, equals the result
\* of the original statement.
C22_PlanEquivalent ==
  (Decomposed /\ HasMainSelect(parsed)) =>
     PlanResult(queries, <<>>, StatusOf("")) = OriginalResult(parsed)

\* C23: _normalize_cte_references is idempotent: the second call, on the
\* result of the first with the same CTE set, returns that result; and the
\* result of a call is the same for every order in which the names of the
\* set are processed.
C23_IdempotentAnyOrder ==
  /\ Len(norm_out) = 2 => norm_out[2] = norm_out[1]
  /\ Len(norm_out) >= 1 =>
       \A names \in Perms(Range(norm_order)) :
         NormalizeText(norm_sql, names) = norm_out[1]

\* the registry names connections that were opened for the session id, no
\* session id twice
RegistryState ==
  /\ \A i \in DOMAIN session_connections :
       LET e == session_connections[i]
       IN  /\ e.val \in DOMAIN connections
           /\ connections[e.val].sid = e.key
  /\ \A i, j \in DOMAIN session_connections :
       session_connections[i].key = session_connections[j].key => i = j

\* the session had a registered open connection before the step
HadOpen(session_id) ==
  /\ HasKey(session_connections, session_id)
  /\ connections[DictGet(session_connections, session_id)].state = "open"

\* what a call of a tool function does to the registry
RegistryStep ==
  calls' = calls + 1 =>
    LET session_id == last_call'.sid
        c == last_call'.conn
    IN  /\ (last_call'.op \in {"get_or_create_connection", "execute_sql_step"}
             /\ c # 0) =>
              /\ connections'[c].state = "open"
              /\ DictGet(session_connections', session_id) = c
              /\ IF HadOpen(session_id)
                 THEN /\ c = DictGet(session_connections, session_id)
                      /\ connections' = connections
                 ELSE c \notin DOMAIN connections
        /\ (last_call'.op = "execute_sql_step" /\ HadOpen(session_id)) =>
              UNCHANGED <<session_connections, connections>>
        /\ last_call'.op = "close_session" =>
              /\ ~HasKey(session_connections', session_id)
              /\ HasKey(session_connections, session_id) =>
                   connections'[DictGet(session_connections, session_id)].state
                     = "closed"

\* C24: in every run of get_or_create_connection, execute_sql_step and
\* close_session calls, a call for a session id whose registered connection
\* is open returns that connection and leaves it open, also when the SQL
\* step fails; close_session closes the connection and removes the id; and
\* a call for an id that has no open connection opens a fresh one and never
\* returns a closed one.
C24_SessionRegistry == []RegistryState /\ [][RegistryStep]_vars

\* the first connection of a session is closed, and the third call, a
\* get_or_create_connection for that id, opened and returned a second one
C24_Witness ==
  /\ last_call.op = "get_or_create_connection"
  /\ last_call.conn = 2
  /\ connections[1] = [sid |-> last_call.sid, state |-> "closed"]
  /\ connections[2] = [sid |-> last_call.sid, state |-> "open"]
  /\ calls = 3

\* C25: when two threads were in get_or_create_connection for the same
\* session id at the same time and both returned, at most one of them opened
\* a connection, both obtained the same connection, and a connection one of
\* them opened that is still open is the registered one.
C25_OneConnectionPerSession ==
  \A t1, t2 \in DOMAIN threads :
    (/\ t1 # t2
     /\ threads[t1].sid = threads[t2].sid
     /\ threads[t1].pc = "done"
     /\ threads[t2].pc = "done") =>
       /\ threads[t1].mine = 0 \/ threads[t2].mine = 0
       /\ threads[t1].got = threads[t2].got
       /\ \A c \in {threads[t1].mine, threads[t2].mine} \ {0} :
            connections[c].state = "open" =>
              DictGet(session_connections, threads[t1].sid) = c

\* ---- the SQL tool calls of the conversation and what the tool did ----
\* <<i, k>>: call k of the assistant message at item i
SqlCalls ==
  {ik \in (DOMAIN conversation) \X (1..MaxToolCalls) :
     /\ conversation[ik[1]].role = "assistant"
     /\ ik[2] \in DOMAIN conversation[ik[1]].tool_calls
     /\ conversation[ik[1]].tool_calls[ik[2]].name
          \in {"execute_sql_step", "execute_snowflake_sql"}}

CallAt(ik) == conversation[ik[1]].tool_calls[ik[2]]

\* the tool message that answers the call
AnswerTo(ik) == conversation[ik[1] + ik[2]].content

\* the tool returned an SQL error or an unexpected error as its content
FailedInTool(ik) == AnswerTo(ik)[2] \in {"SQL Error", "Unexpected error"}

StepOf(ik) == CallAt(ik).arguments.step_name

\* the named calls that succeeded, of one step name
SuccessfulVersions(n) == {ik \in SqlCalls : StepOf(ik) = n /\ ~FailedInTool(ik)}

\* calls are numbered in the order of the conversation
Earlier(ik, jk) == CallAt(ik).arguments.sql < CallAt(jk).arguments.sql

Latest(S) == CHOOSE ik \in S : \A jk \in S : jk = ik \/ Earlier(jk, ik)

Earliest(S) == CHOOSE ik \in S : \A jk \in S : jk = ik \/ Earlier(ik, jk)

\* the positions of the executable sequence that hold a block of step n
BlocksOf(n) == {x \in DOMAIN output.sequence : output.sequence[x].label = n}

StepNamesUsed == {StepOf(ik) : ik \in SqlCalls} \ {""}

\* C26: in the file written, every step name with a successful named
\* execution has exactly one block in the final executable sequence, the
\* most recent successful version; the blocks are in the order of the first
\* successful appearance of their step names; every earlier successful
\* version is in the history as SUPERSEDED VERSION; and a call without a
\* step name is in the history only.
C26_FinalSequence ==
  output.written =>
    /\ \A n \in StepNamesUsed :
         SuccessfulVersions(n) # {} =>
           /\ Cardinality(BlocksOf(n)) = 1
           /\ \A x \in BlocksOf(n) :
                output.sequence[x] = SqlBlock(CallAt(Latest(SuccessfulVersions(n))))
           /\ \A ik \in SuccessfulVersions(n) \ {Latest(SuccessfulVersions(n))} :
                <<SqlBlock(CallAt(ik)), "SUPERSEDED VERSION">>
                  \in Range(output.history)
    /\ \A n1, n2 \in StepNamesUsed :
         (/\ SuccessfulVersions(n1) # {}
          /\ SuccessfulVersions(n2) # {}
          /\ Earlier(Earliest(SuccessfulVersions(n1)), Earliest(SuccessfulVersions(n2))))
         => \A x \in BlocksOf(n1), y \in BlocksOf(n2) : x < y
    /\ \A ik \in SqlCalls :
         StepOf(ik) = "" =>
           /\ SqlBlock(CallAt(ik)) \notin Range(output.sequence)
           /\ \E h \in Range(output.history) : h[1] = SqlBlock(CallAt(ik))

\* C27: a SQL call that failed in the tool is in the history as FAILED
\* ATTEMPT and its block is not in the final executable sequence, so that it
\* replaces no successful version of its step, also when its assistant
\* message carries several tool calls.
C27_FailedNeverFinal ==
  output.written =>
    \A ik \in SqlCalls :
      FailedInTool(ik) =>
        /\ <<SqlBlock(CallAt(ik)), "FAILED ATTEMPT">> \in Range(output.history)
        /\ SqlBlock(CallAt(ik)) \notin Range(output.sequence)

====
